---- MODULE Spec2Model ----
(***************************************************************************)
(* Model of the sled-backed key-value gRPC service (src/src/server.rs).    *)
(*                                                                         *)
(* The service holds one sled::Db.  Its four handlers (find_by_key,        *)
(* delete, insert, keys) run on the worker threads of the tokio runtime,   *)
(* so handlers of different calls interleave at the granularity of the     *)
(* engine calls they make.  find_by_key, delete and insert make exactly    *)
(* one engine call each and are one action each; keys drives a sled        *)
(* iterator, one engine read per loop iteration, and is modelled as        *)
(* KeysBegin followed by one KeysNext per iteration.                       *)
(***************************************************************************)
EXTENDS Integers, Sequences, FiniteSets, TLC

\* ---------------------------------------------------------------- bounds
MaxRecords == 3
MaxInflight == 2

\* A key is a byte sequence.  The keys the calls draw from: the empty key,
\* "a", "aa", "a" followed by a truncated two-byte sequence, a stray
\* continuation byte (0xA9), a lone lead byte (0xC3), the two-byte text
\* U+00E9 (0xC3 0xA9) and the byte 0xFF.  They cover valid one- and two-byte
\* text, invalid encodings, keys that are prefixes of other keys, and a
\* prefix with no upper bound.
Keys ==
    {<<>>, <<97>>, <<97, 97>>, <<97, 195>>, <<169>>, <<195>>, <<195, 169>>,
     <<255>>}

\* The smaller sets the crash and the concurrency specifications draw from.
ScanKeys == {<<97>>, <<97, 97>>, <<97, 195>>, <<195, 169>>}

ScanPrefixes == {<<>>, <<97>>}

FewKeys == {<<97>>, <<195, 169>>}

\* Values are opaque byte sequences.
Values == {<<1>>, <<2>>}

\* Option<T>: None is the empty sequence, Some(x) the one-element sequence.
None == <<>>

Some(x) == <<x>>

VARIABLES database, disk, iter, last, acked, inflight, race

vars == <<database, disk, iter, last, acked, inflight, race>>

\* ------------------------------------------------------ byte-string order
\* Ord for byte slices: lexicographic, a proper prefix sorts first.
RECURSIVE LexLess(_, _)
LexLess(a, b) ==
    IF a = <<>> THEN b # <<>>
    ELSE IF b = <<>> THEN FALSE
    ELSE IF Head(a) < Head(b) THEN TRUE
    ELSE IF Head(a) > Head(b) THEN FALSE
    ELSE LexLess(Tail(a), Tail(b))

StartsWith(k, p) == Len(p) <= Len(k) /\ SubSeq(k, 1, Len(p)) = p

\* --------------------------------------------------------- engine (sled)
\* The tree is a finite map from the keys present to their values.
DbGet(db, key) == IF key \in DOMAIN db THEN Some(db[key]) ELSE None

\* Faulty variant: an insert that keeps the value of a key already present.
DbInsertIfAbsent(db, key, value) ==
    [k \in (DOMAIN db) \cup {key} |->
        IF k = key /\ key \notin DOMAIN db THEN value ELSE db[k]]

DbInsert(db, key, value) ==
    [k \in (DOMAIN db) \cup {key} |-> IF k = key THEN value ELSE db[k]]

\* Faulty variant: a remove that drops every key starting with the given key.
DbRemovePrefix(db, key) ==
    [k \in {j \in DOMAIN db : ~StartsWith(j, key)} |-> db[k]]

DbRemove(db, key) == [k \in (DOMAIN db) \ {key} |-> db[k]]

\* Range bounds of an iterator (std::ops::Bound).
Included(k) == [kind |-> "included", key |-> k]

Excluded(k) == [kind |-> "excluded", key |-> k]

Unbounded == [kind |-> "unbounded", key |-> <<>>]

\* scan_prefix turns the prefix into the half-open range [prefix, upper):
\* upper is the prefix with its last byte below 0xFF incremented and the
\* bytes after it dropped; a prefix with no such byte has no upper bound.
RECURSIVE PrefixUpper(_)
PrefixUpper(p) ==
    IF p = <<>> THEN Unbounded
    ELSE LET lastByte == p[Len(p)]
             front == SubSeq(p, 1, Len(p) - 1)
         IN IF lastByte < 255 THEN Excluded(Append(front, lastByte + 1))
            ELSE PrefixUpper(front)

AboveLo(k, lo) ==
    CASE lo.kind = "included" -> k = lo.key \/ LexLess(lo.key, k)
      [] lo.kind = "excluded" -> LexLess(lo.key, k)
      [] OTHER -> TRUE

BelowHi(k, hi) ==
    CASE hi.kind = "included" -> k = hi.key \/ LexLess(k, hi.key)
      [] hi.kind = "excluded" -> LexLess(k, hi.key)
      [] OTHER -> TRUE

\* Faulty variant: an iterator that walks on past the upper bound of the range.
IterNextNoUpper(db, lo, hi) ==
    LET inRange == {k \in DOMAIN db : AboveLo(k, lo)}
    IN IF inRange = {} THEN None
       ELSE Some(CHOOSE k \in inRange : \A j \in inRange : j = k \/ LexLess(k, j))

\* One step of the iterator: the smallest key of the live tree inside the
\* remaining range, or None when the range holds no key any more.  Each
\* step reads the tree as it is when the step runs.
IterNext(db, lo, hi) ==
    LET inRange == {k \in DOMAIN db : AboveLo(k, lo) /\ BelowHi(k, hi)}
    IN IF inRange = {} THEN None
       ELSE Some(CHOOSE k \in inRange : \A j \in inRange : j = k \/ LexLess(k, j))

\* ------------------------------------------------------------ UTF-8 text
IsCont(b) == 128 <= b /\ b <= 191

\* Number of bytes of the well-formed UTF-8 sequence that starts s, or 0
\* when s starts with no well-formed sequence (what String::from_utf8
\* rejects: stray continuation bytes, overlong forms, surrogates, values
\* above U+10FFFF, truncated sequences).
Utf8Width(s) ==
    LET b == s[1] IN
    IF b < 128 THEN 1
    ELSE IF 194 <= b /\ b <= 223
         THEN IF Len(s) >= 2 /\ IsCont(s[2]) THEN 2 ELSE 0
    ELSE IF 224 <= b /\ b <= 239
         THEN IF /\ Len(s) >= 3
                 /\ IsCont(s[2])
                 /\ IsCont(s[3])
                 /\ (b = 224 => s[2] >= 160)
                 /\ (b = 237 => s[2] <= 159)
              THEN 3 ELSE 0
    ELSE IF 240 <= b /\ b <= 244
         THEN IF /\ Len(s) >= 4
                 /\ IsCont(s[2])
                 /\ IsCont(s[3])
                 /\ IsCont(s[4])
                 /\ (b = 240 => s[2] >= 144)
                 /\ (b = 244 => s[2] <= 143)
              THEN 4 ELSE 0
    ELSE 0

\* The code point encoded by the first w bytes of s.
Utf8Scalar(s, w) ==
    CASE w = 1 -> s[1]
      [] w = 2 -> (s[1] - 192) * 64 + (s[2] - 128)
      [] w = 3 -> (s[1] - 224) * 4096 + (s[2] - 128) * 64 + (s[3] - 128)
      [] OTHER -> (s[1] - 240) * 262144 + (s[2] - 128) * 4096
                    + (s[3] - 128) * 64 + (s[4] - 128)

\* String::from_utf8: Ok(text) with the text as its sequence of code
\* points, or Err.
RECURSIVE FromUtf8(_)
FromUtf8(s) ==
    IF s = <<>> THEN [ok |-> TRUE, text |-> <<>>]
    ELSE LET w == Utf8Width(s) IN
         IF w = 0 THEN [ok |-> FALSE, text |-> <<>>]
         ELSE LET rest == FromUtf8(SubSeq(s, w + 1, Len(s))) IN
              IF rest.ok
              THEN [ok |-> TRUE, text |-> <<Utf8Scalar(s, w)>> \o rest.text]
              ELSE [ok |-> FALSE, text |-> <<>>]

\* ------------------------------------------------------------- responses
\* The record of the most recent call: the request (op, key, value), the
\* response (status, rkey, rvalue, keys) and what is known of the run
\* (fault: the engine reported an error; pre: the value the key had when the
\* engine call ran; start: see KeysBegin).  A keys call that is still
\* iterating has status RUNNING.
Call(op, key, value, status, rkey, rvalue, keys, fault, pre, start) ==
    [op |-> op, key |-> key, value |-> value, status |-> status,
     rkey |-> rkey, rvalue |-> rvalue, keys |-> keys, fault |-> fault,
     pre |-> pre, start |-> start]

NoCall == Call("none", <<>>, <<>>, "OK", <<>>, <<>>, <<>>, FALSE, None, {})

Opened == Call("open", <<>>, <<>>, "OK", <<>>, <<>>, <<>>, FALSE, None, {})

\* Faulty variant: an absent key reported as an engine failure.
FindReplyAbsentAsInternal(db, key, fault) ==
    LET got == DbGet(db, key) IN
    IF fault \/ got = None
    THEN Call("find_by_key", key, <<>>, "INTERNAL", <<>>, <<>>, <<>>,
              fault, got, {})
    ELSE Call("find_by_key", key, <<>>, "OK", key, got[1], <<>>,
              FALSE, got, {})

FindReply(db, key, fault) ==
    LET got == DbGet(db, key) IN
    IF fault
    THEN Call("find_by_key", key, <<>>, "INTERNAL", <<>>, <<>>, <<>>,
              TRUE, got, {})
    ELSE IF got = None
    THEN Call("find_by_key", key, <<>>, "NOT_FOUND", <<>>, <<>>, <<>>,
              FALSE, got, {})
    ELSE Call("find_by_key", key, <<>>, "OK", key, got[1], <<>>,
              FALSE, got, {})

\* Faulty variant: deleting an absent key reported as NOT_FOUND.
DeleteReplyStrict(db, key, fault) ==
    IF fault
    THEN Call("delete", key, <<>>, "INTERNAL", <<>>, <<>>, <<>>,
              TRUE, DbGet(db, key), {})
    ELSE IF DbGet(db, key) = None
    THEN Call("delete", key, <<>>, "NOT_FOUND", <<>>, <<>>, <<>>,
              FALSE, DbGet(db, key), {})
    ELSE Call("delete", key, <<>>, "OK", key, <<>>, <<>>,
              FALSE, DbGet(db, key), {})

DeleteReply(db, key, fault) ==
    IF fault
    THEN Call("delete", key, <<>>, "INTERNAL", <<>>, <<>>, <<>>,
              TRUE, DbGet(db, key), {})
    ELSE Call("delete", key, <<>>, "OK", key, <<>>, <<>>,
              FALSE, DbGet(db, key), {})

\* Faulty variant: an engine failure answered with the success response.
InsertReplyOkOnError(db, key, value, fault) ==
    Call("insert", key, value, "OK", key, value, <<>>, fault, DbGet(db, key), {})

InsertReply(db, key, value, fault) ==
    IF fault
    THEN Call("insert", key, value, "INTERNAL", <<>>, <<>>, <<>>,
              TRUE, DbGet(db, key), {})
    ELSE Call("insert", key, value, "OK", key, value, <<>>,
              FALSE, DbGet(db, key), {})

KeysReply(it, status, keys, fault) ==
    Call("keys", it.prefix, <<>>, status, <<>>, <<>>, keys, fault, None,
         it.start)

\* The iterator of the keys call in progress, if any.
Idle ==
    [active |-> FALSE, prefix |-> <<>>, lo |-> Unbounded, hi |-> Unbounded,
     keys |-> <<>>, start |-> {}]

NoRace == [pending |-> {}, done |-> {}]

Init ==
    /\ database = <<>>
    /\ disk = <<>>
    /\ iter = Idle
    /\ last = NoCall
    /\ acked = <<>>
    /\ inflight = [i \in 1..MaxInflight |-> None]
    /\ race = NoRace

\* -------------------------------------------------------------- handlers
\* find_by_key: one engine read, mapped to the pair, NOT_FOUND or INTERNAL.
FindByKey(key, fault) ==
    /\ last' = FindReply(database, key, fault)
    /\ UNCHANGED <<database, disk, iter, acked>>

\* delete: one engine remove; success echoes the request.
Delete(key, fault) ==
    /\ database' = IF fault THEN database ELSE DbRemove(database, key)
    /\ last' = DeleteReply(database, key, fault)
    /\ acked' = IF fault THEN acked ELSE DbRemove(acked, key)
    /\ UNCHANGED <<disk, iter>>

\* Faulty variant: the handler stores the key bytes in place of the value.
InsertKeyAsValue(key, value, fault) ==
    /\ database' = IF fault THEN database ELSE DbInsert(database, key, key)
    /\ last' = InsertReply(database, key, value, fault)
    /\ acked' = IF fault THEN acked ELSE DbInsert(acked, key, value)
    /\ UNCHANGED <<disk, iter>>

\* insert: one engine insert; success echoes the pair.
Insert(key, value, fault) ==
    /\ database' = IF fault THEN database ELSE DbInsert(database, key, value)
    /\ last' = InsertReply(database, key, value, fault)
    /\ acked' = IF fault THEN acked ELSE DbInsert(acked, key, value)
    /\ UNCHANGED <<disk, iter>>

\* keys, up to the loop: the empty result vector and the prefix iterator.
\* start remembers the matching keys the store holds at this instant.
KeysBegin(prefix) ==
    /\ ~iter.active
    /\ iter' = [active |-> TRUE, prefix |-> prefix, lo |-> Included(prefix),
                hi |-> PrefixUpper(prefix), keys |-> <<>>,
                start |-> {k \in DOMAIN database : StartsWith(k, prefix)}]
    /\ last' = KeysReply(iter', "RUNNING", <<>>, FALSE)
    /\ UNCHANGED <<database, disk, acked>>

\* Faulty variant: a key that is not valid UTF-8 is skipped and the scan goes on.
KeysNextSkipsBadKeys(fault) ==
    /\ iter.active
    /\ LET item == IterNext(database, iter.lo, iter.hi)
           text == FromUtf8(item[1])
       IN IF fault
          THEN last' = KeysReply(iter, "INTERNAL", <<>>, TRUE) /\ iter' = Idle
          ELSE IF item = None
          THEN last' = KeysReply(iter, "OK", iter.keys, FALSE) /\ iter' = Idle
          ELSE /\ iter' = [iter EXCEPT !.lo = Excluded(item[1]),
                                       !.keys = IF text.ok THEN Append(@, text.text)
                                                ELSE @]
               /\ UNCHANGED last
    /\ UNCHANGED <<database, disk, acked>>

\* keys, one loop iteration: the iterator yields an error, a key or its end.
KeysNext(fault) ==
    /\ iter.active
    /\ LET item == IterNext(database, iter.lo, iter.hi)
           text == FromUtf8(item[1])
       IN IF fault
          THEN last' = KeysReply(iter, "INTERNAL", <<>>, TRUE) /\ iter' = Idle
          ELSE IF item = None
          THEN last' = KeysReply(iter, "OK", iter.keys, FALSE) /\ iter' = Idle
          ELSE IF text.ok
          THEN /\ iter' = [iter EXCEPT !.lo = Excluded(item[1]),
                                       !.keys = Append(@, text.text)]
               /\ UNCHANGED last
          ELSE last' = KeysReply(iter, "INTERNAL", <<>>, FALSE) /\ iter' = Idle
    /\ UNCHANGED <<database, disk, acked>>

\* ------------------------------------------------- flushing and crashing
\* sled::open starts the engine with its default configuration: writes go
\* to in-memory buffers, and a background thread makes them durable from
\* time to time.  No handler asks for a flush.
Flush ==
    /\ disk # database
    /\ disk' = database
    /\ UNCHANGED <<database, iter, last, acked, inflight, race>>

\* The process is killed and started again: main opens the store, which
\* recovers what was durable.
CrashAndReopen ==
    /\ database' = disk
    /\ iter' = Idle
    /\ last' = Opened
    /\ inflight' = [i \in 1..MaxInflight |-> None]
    /\ race' = NoRace
    /\ UNCHANGED <<disk, acked>>

\* ------------------------------------------------------ calls in flight
\* The server accepts an insert call; its handler has not run yet.
Accept(slot, key, value) ==
    /\ inflight[slot] = None
    /\ inflight' = [inflight EXCEPT ![slot] = Some([key |-> key, value |-> value])]
    /\ UNCHANGED <<database, disk, iter, last, acked, race>>

\* The handler of an accepted insert call runs.  race.pending names the
\* calls on the same key still in flight at that moment; race.done holds the
\* value of the insert on the same key that ran just before this one while
\* this one was in flight.
Serve(slot, fault) ==
    /\ inflight[slot] # None
    /\ LET req == inflight[slot][1] IN
       /\ Insert(req.key, req.value, fault)
       /\ race' = [pending |-> {s \in DOMAIN inflight :
                                   /\ s # slot
                                   /\ inflight[s] # None
                                   /\ inflight[s][1].key = req.key},
                   done |-> IF /\ slot \in race.pending
                               /\ last.op = "insert"
                               /\ last.status = "OK"
                               /\ last.key = req.key
                            THEN {last.value} ELSE {}]
    /\ inflight' = [inflight EXCEPT ![slot] = None]

\* --------------------------------------------------------- specifications
\* Room for one more record (the bound on the size of the store).
Room(key) == key \in DOMAIN database \/ Cardinality(DOMAIN database) < MaxRecords

\* Calls served one at a time.
Next ==
    \/ \E key \in Keys, fault \in BOOLEAN :
           ~iter.active /\ FindByKey(key, fault) /\ UNCHANGED <<inflight, race>>
    \/ \E key \in Keys, fault \in BOOLEAN :
           ~iter.active /\ Delete(key, fault) /\ UNCHANGED <<inflight, race>>
    \/ \E key \in Keys, value \in Values, fault \in BOOLEAN :
           /\ ~iter.active
           /\ Room(key)
           /\ Insert(key, value, fault)
           /\ UNCHANGED <<inflight, race>>
    \/ \E prefix \in Keys : KeysBegin(prefix) /\ UNCHANGED <<inflight, race>>
    \/ \E fault \in BOOLEAN : KeysNext(fault) /\ UNCHANGED <<inflight, race>>

Spec == Init /\ [][Next]_vars

\* A keys call running while other calls write.
NextScan ==
    \/ \E key \in ScanKeys, fault \in BOOLEAN :
           Delete(key, fault) /\ UNCHANGED <<inflight, race>>
    \/ \E key \in ScanKeys, value \in Values, fault \in BOOLEAN :
           Room(key) /\ Insert(key, value, fault) /\ UNCHANGED <<inflight, race>>
    \/ \E prefix \in ScanPrefixes : KeysBegin(prefix) /\ UNCHANGED <<inflight, race>>
    \/ \E fault \in BOOLEAN : KeysNext(fault) /\ UNCHANGED <<inflight, race>>

SpecScan == Init /\ [][NextScan]_vars

\* Calls, background flushes and crashes.
NextCrash ==
    \/ \E key \in FewKeys, fault \in BOOLEAN :
           FindByKey(key, fault) /\ UNCHANGED <<inflight, race>>
    \/ \E key \in FewKeys, fault \in BOOLEAN :
           Delete(key, fault) /\ UNCHANGED <<inflight, race>>
    \/ \E key \in FewKeys, value \in Values, fault \in BOOLEAN :
           Insert(key, value, fault) /\ UNCHANGED <<inflight, race>>
    \/ Flush
    \/ CrashAndReopen

SpecCrash == Init /\ [][NextCrash]_vars

\* Insert calls in flight together.
NextRace ==
    \/ \E slot \in 1..MaxInflight, key \in FewKeys, value \in Values :
           Accept(slot, key, value)
    \/ \E slot \in 1..MaxInflight, fault \in BOOLEAN : Serve(slot, fault)
    \/ \E key \in FewKeys, fault \in BOOLEAN :
           /\ Delete(key, fault)
           /\ race' = NoRace
           /\ UNCHANGED inflight
    \/ \E key \in FewKeys, fault \in BOOLEAN :
           FindByKey(key, fault) /\ UNCHANGED <<inflight, race>>

SpecRace == Init /\ [][NextRace]_vars

\* ----------------------------------------------------------------- claims
\* The stored keys that start with the prefix.
Matching(db, prefix) == {k \in DOMAIN db : StartsWith(k, prefix)}

\* The UTF-8 bytes of one code point, and of a text.
EncodeScalar(c) ==
    IF c < 128 THEN <<c>>
    ELSE IF c < 2048 THEN <<192 + (c \div 64), 128 + (c % 64)>>
    ELSE IF c < 65536
         THEN <<224 + (c \div 4096), 128 + ((c \div 64) % 64), 128 + (c % 64)>>
    ELSE <<240 + (c \div 262144), 128 + ((c \div 4096) % 64),
           128 + ((c \div 64) % 64), 128 + (c % 64)>>

RECURSIVE Utf8Encode(_)
Utf8Encode(text) ==
    IF text = <<>> THEN <<>>
    ELSE EncodeScalar(Head(text)) \o Utf8Encode(Tail(text))

\* The keys a keys response lists, as byte sequences.
Listed(keys) == {Utf8Encode(keys[i]) : i \in 1..Len(keys)}

\* C1: a find_by_key whose engine read succeeds, on a key whose most recent
\* completed write is an acknowledged insert(k, v), returns OK with the
\* pair (k, v).
C1_LastWriteWins ==
    (last.op = "find_by_key" /\ ~last.fault /\ last.key \in DOMAIN acked) =>
        /\ last.status = "OK"
        /\ last.rkey = last.key
        /\ last.rvalue = acked[last.key]

C1_Witness ==
    /\ last.op = "find_by_key"
    /\ last.status = "OK"
    /\ last.rvalue = <<2>>
    /\ Cardinality(DOMAIN database) > 1

\* C2: after a crash and reopen the store holds every acknowledged write:
\* for every key, the value of its last acknowledged insert, or nothing
\* after an acknowledged delete.
C2_AcknowledgedWritesSurvive == last.op = "open" => database = acked

\* C3: find_by_key answers NOT_FOUND exactly when the key is absent and the
\* engine read succeeds; an absent key never yields a pair, and yields
\* INTERNAL only on an engine failure.
C3_NotFoundIffAbsent ==
    last.op = "find_by_key" =>
        /\ last.status = "NOT_FOUND"
             <=> (last.key \notin DOMAIN database /\ ~last.fault)
        /\ last.key \notin DOMAIN database => last.status # "OK"
        /\ last.status = "INTERNAL" => last.fault

C3_Witness ==
    /\ last.op = "find_by_key"
    /\ last.status = "NOT_FOUND"
    /\ database # <<>>

\* C4: a delete whose engine call succeeds answers OK echoing the key,
\* whether or not the key was present; afterwards find_by_key on that key
\* reports it absent; and when the key was absent the store is unchanged.
C4_DeleteIdempotent ==
    [][(last'.op = "delete" /\ ~last'.fault) =>
          /\ last'.status = "OK"
          /\ last'.rkey = last'.key
          /\ FindReply(database', last'.key, FALSE).status = "NOT_FOUND"
          /\ last'.key \notin DOMAIN database => database' = database]_vars

C4_Witness ==
    /\ last.op = "delete"
    /\ last.status = "OK"
    /\ last.pre = None
    /\ database # <<>>

\* C5: with calls served one at a time, a successful keys(prefix) lists
\* exactly the stored keys that start with the prefix, each once, in
\* ascending byte order (the empty list when there is none).
C5_KeysExactAndSorted ==
    (last.op = "keys" /\ last.status = "OK") =>
        /\ Listed(last.keys) = Matching(database, last.key)
        /\ Len(last.keys) = Cardinality(Matching(database, last.key))
        /\ \A i \in 1..Len(last.keys) : \A j \in 1..Len(last.keys) :
               i < j => LexLess(Utf8Encode(last.keys[i]), Utf8Encode(last.keys[j]))

C5_Witness ==
    /\ last.op = "keys"
    /\ last.status = "OK"
    /\ Len(last.keys) = 2
    /\ last.key # <<>>
    /\ Cardinality(DOMAIN database) = 3

\* C6: with calls served one at a time, a keys(prefix) whose engine reads
\* succeed while a stored key with that prefix is not valid UTF-8 answers
\* INTERNAL with no list; a keys call that answers OK lists every stored
\* key with the prefix.
C6_BadKeyFailsWholeCall ==
    (last.op = "keys" /\ last.status # "RUNNING") =>
        /\ (~last.fault /\ \E k \in Matching(database, last.key) : ~FromUtf8(k).ok)
             => (last.status = "INTERNAL" /\ last.keys = <<>>)
        /\ last.status = "OK" => Matching(database, last.key) \subseteq Listed(last.keys)

C6_Witness ==
    /\ last.op = "keys"
    /\ last.status = "INTERNAL"
    /\ ~last.fault
    /\ \E k \in Matching(database, last.key) : FromUtf8(k).ok /\ k # <<>>
    /\ \E k \in Matching(database, last.key) : ~FromUtf8(k).ok

\* C7: when two insert calls on the same key that were in flight together
\* have both completed with success, find_by_key on that key returns the
\* value of one of the two.
C7_ConcurrentInsertsSerialize ==
    (last.op = "insert" /\ last.status = "OK" /\ race.done # {}) =>
        /\ FindReply(database, last.key, FALSE).status = "OK"
        /\ FindReply(database, last.key, FALSE).rvalue \in {last.value} \cup race.done

C7_Witness ==
    /\ last.op = "insert"
    /\ last.status = "OK"
    /\ race.done # {}
    /\ last.value \notin race.done
    /\ last.pre # None

\* C8: a successful keys(prefix) lists exactly the matching keys the store
\* held when the scan started, whatever is written while it runs.
C8_KeysIsSnapshot ==
    (last.op = "keys" /\ last.status = "OK") => Listed(last.keys) = last.start

\* C9: a call whose engine call fails answers INTERNAL, and a failed insert
\* or delete leaves the store as it was.
C9_FailureIsInternalAndAtomic ==
    [][last'.fault =>
          /\ last'.status = "INTERNAL"
          /\ last'.keys = <<>>
          /\ last'.op \in {"insert", "delete"} => database' = database]_vars

C9_Witness ==
    /\ last.op = "insert"
    /\ last.fault
    /\ last.status = "INTERNAL"
    /\ last.pre # None
    /\ last.pre # Some(last.value)

\* C10: find_by_key and keys leave the store unchanged; insert(k, .) and
\* delete(k) leave every record with another key unchanged.
C10_Frame ==
    [][/\ last'.op \in {"find_by_key", "keys"} => database' = database
       /\ last'.op \in {"insert", "delete"} =>
              \A k \in Keys \ {last'.key} : DbGet(database', k) = DbGet(database, k)]_vars

C10_Witness ==
    /\ last.op = "delete"
    /\ last.status = "OK"
    /\ last.pre # None
    /\ Cardinality(DOMAIN database) = 2

====
